---- MODULE Spec2Model ----
(***************************************************************************)
(* A model of the case-conversion library src/mod.ts: the segmenter        *)
(* splitPieces and the six formatters camelCase, snakeCase, kebabCase,     *)
(* titleCase, pascalCase and constantCase.                                 *)
(*                                                                         *)
(* A JavaScript string is a sequence of characters, each character a       *)
(* token: "k", "K", "1", " ", "-", "_", "\t" and "U+212A" (KELVIN SIGN, an  *)
(* uppercase letter of \p{Lu} whose lower-case form is "k" and whose        *)
(* upper-case form is itself).  An array of strings is a sequence of such  *)
(* sequences.  A value handed to or returned by a function carries its     *)
(* runtime type in the field kind.                                         *)
(***************************************************************************)
EXTENDS Naturals, Sequences, FiniteSets

VARIABLES arg, fn, ret, prev

vars == <<arg, fn, ret, prev>>

-----------------------------------------------------------------------------
(* Bounds of the inputs. *)

\* the longest input string
MaxLen == 4

\* the longest written form of an input array (see ArrayText)
MaxText == 5

-----------------------------------------------------------------------------
(* Characters and the character classes of the regular expression. *)

\* \p{Lu}: the uppercase letters of the alphabet
Lu == {"K", "U+212A"}

\* the lowercase letters of the alphabet
Ll == {"k"}

Digits == {"1"}

\* the characters strings are made of
Alphabet == {"k", "K", "U+212A", "1", " ", "\t", "-", "_"}

\* mutant: a literal space in the place of \s
WhiteSpace_SpaceOnly == {" "}

\* \s: the white space of the alphabet (space and tab)
WhiteSpace == {" ", "\t"}

\* mutant: the underscore left out of the character class
Delims_NoUnderscore == {"-"} \cup WhiteSpace

\* [_\-\s]: the characters the regular expression never puts in a match
Delims == {"_", "-"} \cup WhiteSpace

\* mutant: [a-z] in the place of the negated class
NotLuNotDelim_LowerOnly(c) == c \in Ll

\* mutant: \p{Lu} left out of the negated class
NotLuNotDelim_AnyCase(c) == c \notin Delims

\* [^\p{Lu}_\-\s]
NotLuNotDelim(c) == c \notin Lu /\ c \notin Delims

\* String.prototype.toUpperCase on one character
UpperOf(c) == IF c = "k" THEN "K" ELSE c

\* String.prototype.toLowerCase on one character
LowerOf(c) == IF c \in {"K", "U+212A"} THEN "k" ELSE c

toUpperCase(s) == [i \in 1..Len(s) |-> UpperOf(s[i])]

toLowerCase(s) == [i \in 1..Len(s) |-> LowerOf(s[i])]

-----------------------------------------------------------------------------
(* Values with their runtime type. *)

Str(s) == [kind |-> "str", val |-> s]

Arr(p) == [kind |-> "arr", val |-> p]

\* a TypeError thrown out of the call
Throw == [kind |-> "throw", val |-> <<>>]

\* no value
None == [kind |-> "none", val |-> <<>>]

isArray(v) == v.kind = "arr"

-----------------------------------------------------------------------------
(* splitPieces: str.matchAll(regexp) with                                  *)
(*   /[^\p{Lu}_\-\s]+|\p{Lu}+(?![^\p{Lu}_\-\s])|\p{Lu}[^\p{Lu}_\-\s]*/gu     *)

\* length of the longest run starting at index i of uppercase letters
\* (isUpper) or of characters of [^\p{Lu}_\-\s] (otherwise)
RECURSIVE RunLen(_, _, _)
RunLen(s, i, isUpper) ==
  IF i > Len(s) THEN 0
  ELSE IF (isUpper /\ s[i] \in Lu) \/ (~isUpper /\ NotLuNotDelim(s[i]))
       THEN 1 + RunLen(s, i + 1, isUpper)
       ELSE 0

\* mutant: the lookahead left out
LookaheadOk_None(s, j) == TRUE

\* the negative lookahead (?![^\p{Lu}_\-\s]) at index j
LookaheadOk(s, j) == ~(j <= Len(s) /\ NotLuNotDelim(s[j]))

\* first alternative, [^\p{Lu}_\-\s]+ : length of its match at i, 0 if none
Alt1(s, i) == RunLen(s, i, FALSE)

\* second alternative, \p{Lu}+(?![^\p{Lu}_\-\s]) : the greedy quantifier gives
\* characters back until the lookahead succeeds
Alt2(s, i) ==
  LET u  == RunLen(s, i, TRUE)
      ok == {n \in 1..u : LookaheadOk(s, i + n)}
  IN  IF ok = {} THEN 0 ELSE CHOOSE n \in ok : \A m \in ok : m <= n

\* third alternative, \p{Lu}[^\p{Lu}_\-\s]*
Alt3(s, i) == IF s[i] \in Lu THEN 1 + RunLen(s, i + 1, FALSE) ELSE 0

\* the match of the whole expression at i: the first alternative that matches
MatchLen(s, i) ==
  IF Alt1(s, i) > 0 THEN Alt1(s, i)
  ELSE IF Alt2(s, i) > 0 THEN Alt2(s, i)
  ELSE Alt3(s, i)

\* matchAll from index i: leftmost match, then on from its end
RECURSIVE MatchAllFrom(_, _)
MatchAllFrom(s, i) ==
  IF i > Len(s) THEN <<>>
  ELSE LET n == MatchLen(s, i)
       IN  IF n = 0 THEN MatchAllFrom(s, i + 1)
           ELSE <<SubSeq(s, i, i + n - 1)>> \o MatchAllFrom(s, i + n)

splitPieces(str) == MatchAllFrom(str, 1)

-----------------------------------------------------------------------------
(* The formatters. *)

\* Array.prototype.join
RECURSIVE join(_, _)
join(pieces, sep) ==
  IF pieces = <<>> THEN <<>>
  ELSE IF Len(pieces) = 1 THEN pieces[1]
  ELSE pieces[1] \o sep \o join(Tail(pieces), sep)

\* mutant: s.slice(1) forgotten
Capitalize_FirstOnly(s) ==
  IF s = <<>> THEN Throw ELSE Str(<<UpperOf(s[1])>>)

\* s[0].toUpperCase() + s.slice(1).toLowerCase(); s[0] is undefined for ""
Capitalize(s) ==
  IF s = <<>> THEN Throw
  ELSE Str(<<UpperOf(s[1])>> \o toLowerCase(Tail(s)))

\* mutant: the all-uppercase test left out
KeepOrCapitalize_Always(s) == Capitalize(s)

\* the callback of titleCase, pascalCase and (after the first piece) camelCase
KeepOrCapitalize(s) == IF toUpperCase(s) = s THEN Str(s) ELSE Capitalize(s)

\* map(...).join(sep) where mapped[i] is the callback's outcome on piece i
MapJoin(mapped, sep) ==
  IF \E i \in 1..Len(mapped) : mapped[i].kind = "throw" THEN Throw
  ELSE Str(join([i \in 1..Len(mapped) |-> mapped[i].val], sep))

\* mutant: an array is joined and split again
Pieces_Resplit(str) ==
  splitPieces(IF isArray(str) THEN join(str.val, <<" ">>) ELSE str.val)

\* Array.isArray(str) ? str : splitPieces(str)
Pieces(str) == IF isArray(str) THEN str.val ELSE splitPieces(str.val)

camelCase(str) ==
  LET pieces == Pieces(str)
  IN  MapJoin([i \in 1..Len(pieces) |->
                 IF i = 1 THEN Str(toLowerCase(pieces[i]))
                 ELSE KeepOrCapitalize(pieces[i])], <<>>)

\* mutant: the joiner of kebabCase
snakeCase_Dash(str) ==
  LET pieces == Pieces(str)
  IN  MapJoin([i \in 1..Len(pieces) |-> Str(toLowerCase(pieces[i]))], <<"-">>)

snakeCase(str) ==
  LET pieces == Pieces(str)
  IN  MapJoin([i \in 1..Len(pieces) |-> Str(toLowerCase(pieces[i]))], <<"_">>)

\* mutant: the joiner of pascalCase
kebabCase_NoJoiner(str) ==
  LET pieces == Pieces(str)
  IN  MapJoin([i \in 1..Len(pieces) |-> Str(toLowerCase(pieces[i]))], <<>>)

kebabCase(str) ==
  LET pieces == Pieces(str)
  IN  MapJoin([i \in 1..Len(pieces) |-> Str(toLowerCase(pieces[i]))], <<"-">>)

titleCase(str) ==
  LET pieces == Pieces(str)
  IN  MapJoin([i \in 1..Len(pieces) |-> KeepOrCapitalize(pieces[i])], <<" ">>)

pascalCase(str) ==
  LET pieces == Pieces(str)
  IN  MapJoin([i \in 1..Len(pieces) |-> KeepOrCapitalize(pieces[i])], <<>>)

constantCase(str) ==
  LET pieces == Pieces(str)
  IN  MapJoin([i \in 1..Len(pieces) |-> Str(toUpperCase(pieces[i]))], <<"_">>)

-----------------------------------------------------------------------------
(* The inputs. *)

\* every string of at most MaxLen ASCII characters
StringInputs == UNION {[1..n -> Alphabet \ {"U+212A"}] : n \in 0..MaxLen}

\* the written form of an array: its elements with a comma after each; the
\* formatters only map the case of an element's characters, so one dash-like
\* and one space-like character stand for the four
ArrayText ==
  UNION {[1..n -> (Alphabet \ {"-", "\t"}) \cup {","}] : n \in 0..MaxText}

\* the array a written form denotes: "k,,K_," is ["k", "", "K_"]
RECURSIVE ArrayOf(_, _)
ArrayOf(t, cur) ==
  IF t = <<>> THEN <<>>
  ELSE IF Head(t) = "," THEN <<cur>> \o ArrayOf(Tail(t), <<>>)
  ELSE ArrayOf(Tail(t), Append(cur, Head(t)))

\* every array whose written form has at most MaxText characters
ArrayInputs == {ArrayOf(t, <<>>) : t \in {x \in ArrayText : x = <<>> \/ x[Len(x)] = ","}}

-----------------------------------------------------------------------------
(* The state machine: a caller makes one call on an input and may hand the *)
(* value returned to a second call.                                        *)

NoCall == [fn |-> "none", arg |-> None, ret |-> None]

Start(a) ==
  /\ arg = a
  /\ fn = "none"
  /\ ret = None
  /\ prev = NoCall

\* the argument of a call: a string or an array of strings (string | string[])
Inputs == {Str(s) : s \in StringInputs} \cup {Arr(p) : p \in ArrayInputs}

Init == \E a \in Inputs : Start(a)

Return(name, v) ==
  /\ fn = "none"
  /\ fn' = name
  /\ ret' = v
  /\ UNCHANGED <<arg, prev>>

CallSplitPieces ==
  /\ arg.kind = "str"
  /\ Return("splitPieces", Arr(splitPieces(arg.val)))

CallCamelCase == Return("camelCase", camelCase(arg))

CallSnakeCase == Return("snakeCase", snakeCase(arg))

CallKebabCase == Return("kebabCase", kebabCase(arg))

CallTitleCase == Return("titleCase", titleCase(arg))

CallPascalCase == Return("pascalCase", pascalCase(arg))

CallConstantCase == Return("constantCase", constantCase(arg))

\* the value returned becomes the argument of a second call
Pipe ==
  /\ fn # "none"
  /\ prev = NoCall
  /\ ret.kind \in {"str", "arr"}
  /\ prev' = [fn |-> fn, arg |-> arg, ret |-> ret]
  /\ arg' = ret
  /\ fn' = "none"
  /\ ret' = None

Next ==
  \/ CallSplitPieces
  \/ CallCamelCase
  \/ CallSnakeCase
  \/ CallKebabCase
  \/ CallTitleCase
  \/ CallPascalCase
  \/ CallConstantCase
  \/ Pipe

Spec == Init /\ [][Next]_vars

-----------------------------------------------------------------------------
(* Vocabulary of the properties. *)

\* the delimiters the specification names: space, dash and underscore
NamedDelims == {" ", "-", "_"}

Formatters ==
  {"camelCase", "snakeCase", "kebabCase", "titleCase", "pascalCase", "constantCase"}

\* the formatter called name applied to the value a
Apply(name, a) ==
  CASE name = "camelCase" -> camelCase(a)
    [] name = "snakeCase" -> snakeCase(a)
    [] name = "kebabCase" -> kebabCase(a)
    [] name = "titleCase" -> titleCase(a)
    [] name = "pascalCase" -> pascalCase(a)
    [] name = "constantCase" -> constantCase(a)

\* the characters of s that are not in the set D, in order
Without(s, D) == SelectSeq(s, LAMBDA c : c \notin D)

\* every character of s is in the set D
Over(s, D) == \A i \in 1..Len(s) : s[i] \in D

\* the number of occurrences of the character c in s
Count(s, c) == Len(SelectSeq(s, LAMBDA x : x = c))

\* the elements of the array p one after another
RECURSIVE Concat(_)
Concat(p) == IF p = <<>> THEN <<>> ELSE Head(p) \o Concat(Tail(p))

\* the sum of the lengths of the elements of the array p
RECURSIVE TotalLen(_)
TotalLen(p) == IF p = <<>> THEN 0 ELSE Len(Head(p)) + TotalLen(Tail(p))

\* splitPieces has just returned on a string
Split == fn = "splitPieces" /\ arg.kind = "str" /\ ret.kind = "arr"

\* a formatter has just returned (or thrown) on a caller-supplied array
FormattedArray == fn \in Formatters /\ arg.kind = "arr"

-----------------------------------------------------------------------------
(* C1 *)

\* the input holds letters, digits, spaces, dashes and underscores only
PlainInput == Over(arg.val, Ll \cup Lu \cup Digits \cup NamedDelims)

-----------------------------------------------------------------------------
(* C2 *)

\* the length of the longest run of characters of the set D starting at s[i]
RECURSIVE Run(_, _, _)
Run(s, i, D) ==
  IF i <= Len(s) /\ s[i] \in D THEN 1 + Run(s, i + 1, D) ELSE 0

\* the characters that are neither uppercase letters nor delimiters
Continuation == Alphabet \ (Lu \cup Delims)

\* the tokenizer the claim describes, scanning from index i: a delimiter is
\* skipped; a run of continuation characters is a piece; a run of n uppercase
\* letters followed by the end or a delimiter is a piece; followed by a
\* continuation character, its first n-1 letters are a piece (n >= 2) and its
\* last letter opens a piece running over the continuation characters after it
RECURSIVE Tokens(_, _)
Tokens(s, i) ==
  IF i > Len(s) THEN <<>>
  ELSE IF s[i] \in Delims THEN Tokens(s, i + 1)
  ELSE IF s[i] \in Continuation
       THEN LET n == Run(s, i, Continuation)
            IN  <<SubSeq(s, i, i + n - 1)>> \o Tokens(s, i + n)
  ELSE LET n == Run(s, i, Lu)
           j == i + n
       IN  IF j > Len(s) \/ s[j] \in Delims
           THEN <<SubSeq(s, i, j - 1)>> \o Tokens(s, j)
           ELSE LET m == Run(s, j, Continuation)
                    last == <<SubSeq(s, j - 1, j + m - 1)>> \o Tokens(s, j + m)
                IN  IF n >= 2 THEN <<SubSeq(s, i, j - 2)>> \o last ELSE last

-----------------------------------------------------------------------------
(* C3 *)

\* C3: every piece splitPieces returns is non-empty and holds no space, dash
\* or underscore, and a string that is empty or holds nothing but spaces,
\* dashes and underscores gives no piece at all.
C3_Pieces ==
  Split =>
    /\ \A i \in 1..Len(ret.val) :
         ret.val[i] # <<>> /\ Without(ret.val[i], NamedDelims) = ret.val[i]
    /\ Over(arg.val, NamedDelims) => ret.val = <<>>

\* "k_-k": two delimiters in a row between two pieces, and no empty piece
C3_Witness ==
  /\ Split
  /\ arg.val = <<"k", "_", "-", "k">>
  /\ ret.val = << <<"k">>, <<"k">> >>

-----------------------------------------------------------------------------
(* C4 *)

\* the maximal runs of characters of s outside the set D, from index i on
RECURSIVE RunsOutside(_, _, _)
RunsOutside(s, i, D) ==
  IF i > Len(s) THEN <<>>
  ELSE IF s[i] \in D THEN RunsOutside(s, i + 1, D)
  ELSE LET n == Run(s, i, Alphabet \ D)
       IN  <<SubSeq(s, i, i + n - 1)>> \o RunsOutside(s, i + n, D)

\* the input holds no uppercase letter
NoUpper == Over(arg.val, Alphabet \ Lu)

\* C4 as stated: on a string without uppercase letters splitPieces returns
\* the maximal runs of characters other than space, dash and underscore, so
\* a tab stays inside a piece.
C4_AsStated ==
  (Split /\ NoUpper) => ret.val = RunsOutside(arg.val, 1, NamedDelims)

\* C4, amended: on a string without uppercase letters splitPieces returns the
\* maximal runs of characters other than white space (space, tab, ...), dash
\* and underscore; a digit stays inside its piece, a tab separates.
C4_Delimiters ==
  (Split /\ NoUpper) =>
    ret.val = RunsOutside(arg.val, 1, {"-", "_", " ", "\t"})

\* "k1\tk" splits into "k1", "k": the digit stays, the tab separates
C4_Witness ==
  /\ Split
  /\ arg.val = <<"k", "1", "\t", "k">>
  /\ ret.val = << <<"k", "1">>, <<"k">> >>

-----------------------------------------------------------------------------
(* C5 *)

\* what each formatter does to the piece s at index i (from 1) of its array
Capitalized(s) ==
  IF toUpperCase(s) = s THEN s ELSE <<UpperOf(s[1])>> \o toLowerCase(Tail(s))

Transform(name, i, s) ==
  CASE name = "camelCase" -> IF i = 1 THEN toLowerCase(s) ELSE Capitalized(s)
    [] name \in {"snakeCase", "kebabCase"} -> toLowerCase(s)
    [] name \in {"titleCase", "pascalCase"} -> Capitalized(s)
    [] name = "constantCase" -> toUpperCase(s)

Joiner(name) ==
  CASE name \in {"camelCase", "pascalCase"} -> <<>>
    [] name \in {"snakeCase", "constantCase"} -> <<"_">>
    [] name = "kebabCase" -> <<"-">>
    [] name = "titleCase" -> <<" ">>

\* the transforms of the elements i.. of p with the joiner between them
RECURSIVE Render(_, _, _)
Render(name, p, i) ==
  IF i > Len(p) THEN <<>>
  ELSE IF i = Len(p) THEN Transform(name, i, p[i])
  ELSE Transform(name, i, p[i]) \o Joiner(name) \o Render(name, p, i + 1)

\* C5: a formatter called on the array splitPieces returned for a string
\* returns what it returns when called on the string itself; and called on
\* any caller-supplied array it returns the transforms of exactly the array's
\* elements, joined by its joiner: no element is split again or stripped.
C5_Overload ==
  /\ (fn \in Formatters /\ prev.fn = "splitPieces") => ret = Apply(fn, prev.arg)
  /\ FormattedArray => ret = Str(Render(fn, arg.val, 1))

\* snakeCase(["kK", "_"]) is "kk__": "kK" is not split, "_" is not stripped
C5_Witness ==
  /\ fn = "snakeCase"
  /\ arg = Arr(<< <<"k", "K">>, <<"_">> >>)
  /\ ret = Str(<<"k", "k", "_", "_">>)

\* titleCase(splitPieces("k-kK")) is what titleCase("k-kK") is, "K K K"
C5_WitnessString ==
  /\ fn = "titleCase"
  /\ prev.fn = "splitPieces"
  /\ prev.arg = Str(<<"k", "-", "k", "K">>)
  /\ ret = Str(<<"K", " ", "K", " ", "K">>)

-----------------------------------------------------------------------------
(* C6 *)

\* every element of p is a non-empty word of lowercase letters and digits
LowerWords(p) ==
  \A i \in 1..Len(p) : p[i] # <<>> /\ Over(p[i], Ll \cup Digits)

\* C6: for an array p of non-empty words without uppercase letters and
\* without delimiters, splitPieces(kebabCase(p)) is p.
C6_KebabRoundTrip ==
  ( /\ Split
    /\ prev.fn = "kebabCase"
    /\ prev.arg.kind = "arr"
    /\ LowerWords(prev.arg.val) ) => ret.val = prev.arg.val

\* ["k", "1k"] goes to "k-1k" and comes back
C6_Witness ==
  /\ Split
  /\ prev.fn = "kebabCase"
  /\ prev.arg = Arr(<< <<"k">>, <<"1", "k">> >>)
  /\ arg = Str(<<"k", "-", "1", "k">>)
  /\ ret.val = prev.arg.val

-----------------------------------------------------------------------------
(* C7 *)

\* no element of p holds an underscore
NoUnderscore(p) == \A i \in 1..Len(p) : Count(p[i], "_") = 0

\* C7 as stated: for every array p whose elements hold no underscore,
\* snakeCase(p) holds exactly Len(p) - 1 underscores.
C7_AsStated ==
  (fn = "snakeCase" /\ arg.kind = "arr" /\ NoUnderscore(arg.val)) =>
    Count(ret.val, "_") + 1 = Len(arg.val)

\* C7, amended: for every non-empty array p whose elements hold no
\* underscore, snakeCase(p) holds exactly Len(p) - 1 underscores; for the
\* empty array it is the empty string.
C7_Joiners ==
  (fn = "snakeCase" /\ arg.kind = "arr" /\ NoUnderscore(arg.val)) =>
    /\ ret.kind = "str"
    /\ arg.val # <<>> => Count(ret.val, "_") + 1 = Len(arg.val)
    /\ arg.val = <<>> => ret.val = <<>>

\* snakeCase(["k ", "K"]) is "k _k", with one underscore
C7_Witness ==
  /\ fn = "snakeCase"
  /\ arg = Arr(<< <<"k", " ">>, <<"K">> >>)
  /\ ret = Str(<<"k", " ", "_", "k">>)

-----------------------------------------------------------------------------
(* C8 *)

\* the pieces a formatter works on are non-empty and hold no space, dash or
\* underscore (the pieces splitPieces returns for a string always are)
CleanPieces ==
  \/ arg.kind = "str"
  \/ /\ arg.kind = "arr"
     /\ \A i \in 1..Len(arg.val) :
          arg.val[i] # <<>> /\ Without(arg.val[i], NamedDelims) = arg.val[i]

\* the argument holds ASCII characters only
AsciiArg ==
  IF arg.kind = "str" THEN Over(arg.val, Alphabet \ {"U+212A"})
  ELSE \A i \in 1..Len(arg.val) : Over(arg.val[i], Alphabet \ {"U+212A"})

\* C8 as stated: for non-empty pieces without delimiters, camelCase(p) in
\* upper case is constantCase(p) without its underscores.
C8_AsStated ==
  (fn = "camelCase" /\ CleanPieces) =>
    toUpperCase(ret.val) = Without(constantCase(arg).val, {"_"})

\* C8, amended: for non-empty pieces of ASCII characters without delimiters,
\* camelCase(p) in upper case is constantCase(p) without its underscores.
C8_Reconstruction ==
  (fn = "camelCase" /\ CleanPieces /\ AsciiArg) =>
    /\ ret.kind = "str"
    /\ toUpperCase(ret.val) = Without(constantCase(arg).val, {"_"})

\* camelCase(["K", "kK"]) is "kKk": piece 0 lowered, "kK" capitalized;
\* constantCase gives "K_KK"
C8_Witness ==
  /\ fn = "camelCase"
  /\ arg = Arr(<< <<"K">>, <<"k", "K">> >>)
  /\ ret = Str(<<"k", "K", "k">>)

\* camelCase("K1 K") is "k1K": piece 0 lowered, the all-uppercase "K" kept
C8_WitnessKept ==
  /\ fn = "camelCase"
  /\ arg = Str(<<"K", "1", " ", "K">>)
  /\ ret = Str(<<"k", "1", "K">>)

-----------------------------------------------------------------------------
(* C10 *)

\* every element of p is the empty string
AllEmpty(p) == \A i \in 1..Len(p) : p[i] = <<>>

\* no element of p holds a character of the string sep
Avoids(p, sep) ==
  \A i \in 1..Len(p) : \A j \in 1..Len(sep) : Count(p[i], sep[j]) = 0

\* C10: on every caller-supplied array, also one with empty elements, every
\* formatter returns a string and never throws; the joiners around an empty
\* element are still there (a formatter with a joiner puts Len(p) - 1 of them
\* into the result when no element holds one), and an empty element adds
\* nothing: an array of empty elements gives the joiners alone.
C10_EmptyPieces ==
  FormattedArray =>
    LET p == arg.val
        sep == Joiner(fn)
    IN  /\ ret.kind = "str"
        /\ (p # <<>> /\ sep # <<>> /\ Avoids(p, sep)) =>
             Count(ret.val, sep[1]) = Len(p) - 1
        /\ (p # <<>> /\ AllEmpty(p)) =>
             ret.val = [i \in 1..((Len(p) - 1) * Len(sep)) |-> sep[1]]
        /\ p = <<>> => ret.val = <<>>

\* titleCase(["", "k", ""]) is " K "
C10_Witness ==
  /\ fn = "titleCase"
  /\ arg = Arr(<< <<>>, <<"k">>, <<>> >>)
  /\ ret = Str(<<" ", "K", " ">>)

\* camelCase(["k", "", "k"]) is "kK": the empty element is kept, not capitalized
C10_WitnessCamel ==
  /\ fn = "camelCase"
  /\ arg = Arr(<< <<"k">>, <<>>, <<"k">> >>)
  /\ ret = Str(<<"k", "K">>)

-----------------------------------------------------------------------------
(* C9 *)

\* a formatter was called on a string of letters, digits, spaces, dashes and
\* underscores, and then again on what it returned
Twice ==
  /\ fn \in Formatters
  /\ prev.fn = fn
  /\ prev.arg.kind = "str"
  /\ Over(prev.arg.val, Ll \cup Lu \cup Digits \cup NamedDelims)

\* C9 as stated: f(f(s)) = f(s) for each of the six formatters and every
\* string s of letters, digits, spaces, dashes and underscores.
C9_AsStated == Twice => ret = prev.ret

\* C9, amended: f(f(s)) = f(s) for camelCase, snakeCase, kebabCase, titleCase
\* and pascalCase and every string s of ASCII letters, digits, spaces, dashes
\* and underscores; for constantCase when s moreover holds no digit.
C9_Idempotent ==
  ( /\ Twice
    /\ Over(prev.arg.val, Alphabet \ {"U+212A"})
    /\ fn = "constantCase" => Count(prev.arg.val, "1") = 0 ) => ret = prev.ret

\* pascalCase("k k1") is "KK1", which splits into "K", "K1" and gives "KK1"
C9_Witness ==
  /\ fn = "pascalCase"
  /\ prev.fn = "pascalCase"
  /\ prev.arg = Str(<<"k", " ", "k", "1">>)
  /\ arg = Str(<<"K", "K", "1">>)
  /\ ret = arg

====
